---- MODULE Spec2Model ----
(***************************************************************************)
(* Points & tournament ledger of danny_bot: the points calculator, the     *)
(* two deal stores (DatabaseManager's core store and LeaderboardDatabase's *)
(* leaderboard store), the admin dispute / approve / reject / modify       *)
(* commands, the leaderboard aggregation and the daily / weekly jobs.      *)
(*                                                                         *)
(* Each store is modelled with the columns its own statements name; every  *)
(* statement may also fail with a storage error (the `fail` inputs).       *)
(***************************************************************************)
EXTENDS Integers, Sequences, FiniteSets, TLC

\* ------------------------------------------------------------------------
\* Bounds of the model
\* ------------------------------------------------------------------------
MaxDeals == 2

MaxDay == 1

MaxSnapshots == 2

\* ------------------------------------------------------------------------
\* Inputs
\* ------------------------------------------------------------------------
\* bot.guilds, in iteration order
GuildList == <<1, 2>>

Guilds == {GuildList[i] : i \in DOMAIN GuildList}

\* (guild, member, display name at submit time): member 1 of guild 1 is seen
\* under two display names, member 2 belongs to both guilds
Members ==
    { [guild_id |-> 1, user_id |-> 1, username |-> "ann"],
      [guild_id |-> 1, user_id |-> 1, username |-> "annie"],
      [guild_id |-> 1, user_id |-> 2, username |-> "bob"],
      [guild_id |-> 2, user_id |-> 2, username |-> "bob"] }

NoValue == -1

\* ------------------------------------------------------------------------
\* PointsCalculator (numbers with one decimal are kept in tenths)
\* ------------------------------------------------------------------------
lower(s) ==
    CASE s = "Close" -> "close"
      [] s = "CLOSED" -> "closed"
      [] s = "Self" -> "self"
      [] s = "Standard" -> "standard"
      [] s = "Self_Generated" -> "self_generated"
      [] s = "SOLAR" -> "solar"
      [] s = "Fiber" -> "fiber"
      [] s = "Landscaping" -> "landscaping"
      [] OTHER -> s

NicheNames == {"solar", "fiber", "landscaping"}

\* POINTS_CONFIG[niche], in tenths of a point; the two bonus keys of the
\* landscaping table are ordinary keys of the dictionary
POINTS_CONFIG(niche) ==
    CASE niche = "solar" ->
           [k \in {"standard", "self_generated", "set", "close", "self"} |->
              CASE k = "standard" -> 10 [] k = "self_generated" -> 20
                [] k = "set" -> 10 [] k = "close" -> 10 [] k = "self" -> 20]
      [] niche = "fiber" ->
           [k \in {"standard", "self_generated", "set", "close", "self"} |->
              CASE k = "standard" -> 2 [] k = "self_generated" -> 20
                [] k = "set" -> 10 [] k = "close" -> 10 [] k = "self" -> 20]
      [] niche = "landscaping" ->
           [k \in {"standard", "self_generated", "set", "close", "self",
                   "bonus_threshold", "bonus_per_50k"} |->
              CASE k = "standard" -> 10 [] k = "self_generated" -> 20
                [] k = "set" -> 10 [] k = "close" -> 10 [] k = "self" -> 20
                [] k = "bonus_threshold" -> 500000 [] k = "bonus_per_50k" -> 10]

\* Python's round() on a value given in tenths: half to even
round(tenths) ==
    LET q == tenths \div 10
        r == tenths % 10
    IN  IF r < 5 THEN q
        ELSE IF r > 5 THEN q + 1
        ELSE IF q % 2 = 0 THEN q ELSE q + 1

max(a, b) == IF a >= b THEN a ELSE b

\* A missed floor: the rounded total is returned as it is
calculate_points_no_floor(deal_type_in, niche_in, deal_amount) ==
    LET niche == lower(niche_in)
        deal_type == lower(deal_type_in)
        niche_config == IF niche \in NicheNames THEN POINTS_CONFIG(niche)
                        ELSE POINTS_CONFIG("solar")
        base_points == IF niche = "fiber" /\ deal_type = "standard" THEN 2
                       ELSE IF deal_type \in DOMAIN niche_config
                       THEN niche_config[deal_type] ELSE 10
    IN  IF niche = "fiber" THEN round(base_points) ELSE base_points \div 10

\* A bonus counted on the whole amount instead of the excess over the threshold
calculate_points_bonus_on_amount(deal_type_in, niche_in, deal_amount) ==
    LET niche == lower(niche_in)
        deal_type == lower(deal_type_in)
        niche_config == IF niche \in NicheNames THEN POINTS_CONFIG(niche)
                        ELSE POINTS_CONFIG("solar")
        base_points == IF niche = "fiber" /\ deal_type = "standard" THEN 2
                       ELSE IF deal_type \in DOMAIN niche_config
                       THEN niche_config[deal_type] ELSE 10
        bonus_points == IF niche = "landscaping" /\ deal_amount > 50000
                        THEN deal_amount \div 50000 ELSE 0
        total_points == base_points + 10 * bonus_points
    IN  max(1, IF niche = "fiber" THEN round(total_points) ELSE total_points \div 10)

calculate_points(deal_type_in, niche_in, deal_amount) ==
    LET niche == lower(niche_in)
        deal_type == lower(deal_type_in)
        niche_config == IF niche \in NicheNames THEN POINTS_CONFIG(niche)
                        ELSE POINTS_CONFIG("solar")
        looked_up == IF deal_type \in DOMAIN niche_config
                     THEN niche_config[deal_type] ELSE 10
        base_points == IF niche = "fiber" /\ deal_type = "standard" THEN 2
                       ELSE looked_up
        threshold == niche_config["bonus_threshold"] \div 10
        bonus_per_50k == niche_config["bonus_per_50k"] \div 10
        bonus_points ==
            IF niche = "landscaping" /\ deal_amount > 0 /\ deal_amount > threshold
            THEN ((deal_amount - threshold) \div 50000) * bonus_per_50k
            ELSE 0
        total_points == base_points + 10 * bonus_points
        rounded == IF niche = "fiber" THEN round(total_points)
                   ELSE total_points \div 10
    IN  max(1, rounded)

\* ------------------------------------------------------------------------
\* State
\* ------------------------------------------------------------------------
VARIABLES
    deals,                  \* leaderboard store: deals table, deal_id = index
    core_deals,             \* core store: DatabaseManager's deals, id = index
    tournament_settings,    \* rows (guild_id, current_week), setting_id = index
    tournament_weeks,       \* set of (guild_id, week_number), the primary key
    leaderboard_snapshots,  \* rows of leaderboard_snapshots, snapshot_id = index
    today,                  \* the current date, in days
    call,                   \* a direct call of calculate_points: arguments, result
    reply,                  \* the last admin command and the message it sent
    resets                  \* each caller of reset_guild_tournament: where it stands

vars == <<deals, core_deals, tournament_settings, tournament_weeks,
          leaderboard_snapshots, today, call, reply, resets>>

\* ------------------------------------------------------------------------
\* LeaderboardDatabase
\* ------------------------------------------------------------------------
\* SELECT current_week FROM tournament_settings WHERE guild_id = ?
\*   ORDER BY setting_id DESC LIMIT 1;  result[0] if result else 1
get_current_week_number(guild_id) ==
    LET ids == {i \in DOMAIN tournament_settings :
                    tournament_settings[i].guild_id = guild_id}
    IN  IF ids = {} THEN 1
        ELSE tournament_settings[CHOOSE i \in ids : \A j \in ids : j <= i].current_week

\* INSERT OR IGNORE INTO tournament_weeks (guild_id, week_number, start_date)
initialize_tournament_week(weeks, guild_id, week_number) ==
    weeks \cup {[guild_id |-> guild_id, week_number |-> week_number]}

\* INSERT INTO deals (...); verified and disputed take the column defaults
insert_deal(rows, guild_id, user_id, username, deal_type, niche, points, week_number, admin_submitted) ==
    Append(rows, [guild_id |-> guild_id, user_id |-> user_id,
                  username |-> username, deal_type |-> deal_type,
                  niche |-> niche, points |-> points,
                  week_number |-> week_number, day |-> today,
                  verified |-> TRUE, disputed |-> FALSE,
                  admin_submitted |-> admin_submitted])

\* The WHERE clause of get_leaderboard_data: the deal ids it counts
CountedDeals(timeframe, guild_id, week_number) ==
    IF timeframe = "today"
    THEN {i \in DOMAIN deals : /\ deals[i].guild_id = guild_id
                               /\ deals[i].day = today
                               /\ deals[i].verified}
    ELSE {i \in DOMAIN deals : /\ deals[i].guild_id = guild_id
                               /\ deals[i].week_number = week_number
                               /\ deals[i].verified}

RECURSIVE SumPoints(_)
SumPoints(ids) ==
    IF ids = {} THEN 0
    ELSE LET i == CHOOSE x \in ids : TRUE
         IN  deals[i].points + SumPoints(ids \ {i})

\* GROUP BY user_id, username with the aggregates of the SELECT list
GroupKeys(ids) ==
    {[user_id |-> deals[i].user_id, username |-> deals[i].username] : i \in ids}

GroupOf(ids, key) ==
    {i \in ids : deals[i].user_id = key.user_id /\ deals[i].username = key.username}

LeaderboardGroups(timeframe, guild_id, week_number) ==
    LET ids == CountedDeals(timeframe, guild_id, week_number)
    IN  { [user_id |-> k.user_id,
           username |-> k.username,
           total_points |-> SumPoints(GroupOf(ids, k)),
           standard_deals |->
               Cardinality({i \in GroupOf(ids, k) : deals[i].deal_type = "standard"}),
           self_generated_deals |->
               Cardinality({i \in GroupOf(ids, k) : deals[i].deal_type = "self_generated"}),
           total_deals |-> Cardinality(GroupOf(ids, k))] : k \in GroupKeys(ids) }

\* An ORDER BY that names total_points only
OrderedBefore_points_only(a, b) == a.total_points > b.total_points

\* ORDER BY total_points DESC, total_deals DESC: row a sorts before row b
OrderedBefore(a, b) ==
    \/ a.total_points > b.total_points
    \/ a.total_points = b.total_points /\ a.total_deals > b.total_deals

\* The sorter: a row goes in front of the first row it sorts before
RECURSIVE InsertRow(_, _)
InsertRow(sorted, row) ==
    IF sorted = <<>> THEN <<row>>
    ELSE IF OrderedBefore(row, Head(sorted)) THEN <<row>> \o sorted
    ELSE <<Head(sorted)>> \o InsertRow(Tail(sorted), row)

RECURSIVE SortRows(_)
SortRows(rows) ==
    IF rows = <<>> THEN <<>>
    ELSE InsertRow(SortRows(SubSeq(rows, 1, Len(rows) - 1)), rows[Len(rows)])

\* The orders in which the engine can produce the groups before sorting
Orderings(S) ==
    {f \in [1..Cardinality(S) -> S] :
        \A i, j \in 1..Cardinality(S) : i # j => f[i] # f[j]}

\* The results get_leaderboard_data can return: the groups sorted by the
\* ORDER BY keys; rows that compare equal stay in the order the engine
\* happened to produce them
get_leaderboard_data(timeframe, guild_id, week_number) ==
    {SortRows(f) : f \in Orderings(LeaderboardGroups(timeframe, guild_id, week_number))}

\* The WHERE clause of get_user_stats' current-week query: the deal ids it
\* counts
WeekStatsDeals(user_id, guild_id) ==
    {i \in DOMAIN deals : /\ deals[i].user_id = user_id
                           /\ deals[i].guild_id = guild_id
                           /\ deals[i].week_number = get_current_week_number(guild_id)
                           /\ deals[i].verified
                           /\ ~deals[i].disputed}

\* get_user_stats, 'current_week': COUNT(*) and SUM(points) over all the
\* (niche, deal_type) groups of the user
get_user_stats(user_id, guild_id) ==
    [deal_count |-> Cardinality(WeekStatsDeals(user_id, guild_id)),
     total_points |-> SumPoints(WeekStatsDeals(user_id, guild_id))]

\* LeaderboardDisplay.show_leaderboard: the LeaderboardEntry objects it builds,
\* rank = position in the result
show_leaderboard(leaderboard_data) ==
    [i \in DOMAIN leaderboard_data |->
        [user_id |-> leaderboard_data[i].user_id,
         total_points |-> leaderboard_data[i].total_points,
         standard_deals |-> leaderboard_data[i].standard_deals,
         self_generated_deals |-> leaderboard_data[i].self_generated_deals,
         total_deals |-> leaderboard_data[i].total_deals,
         rank |-> i]]

\* INSERT OR REPLACE INTO leaderboard_snapshots, one row per entry, one commit
RECURSIVE save_leaderboard_snapshot(_, _, _, _, _)
save_leaderboard_snapshot(rows, guild_id, leaderboard_data, week_number, snapshot_date) ==
    IF leaderboard_data = <<>> THEN rows
    ELSE LET entry == Head(leaderboard_data)
         IN  save_leaderboard_snapshot(
                 Append(rows, [guild_id |-> guild_id,
                               user_id |-> entry.user_id,
                               username |-> entry.username,
                               total_points |-> entry.total_points,
                               standard_deals |-> entry.standard_deals,
                               self_generated_deals |-> entry.self_generated_deals,
                               total_deals |-> entry.total_deals,
                               rank_position |-> 0,
                               snapshot_date |-> snapshot_date,
                               week_number |-> week_number]),
                 guild_id, Tail(leaderboard_data), week_number, snapshot_date)

\* ------------------------------------------------------------------------
\* Deal submission (ui/views/deal_submission.py)
\* ------------------------------------------------------------------------
\* What a member can submit: the niche view, the button pressed and the
\* deal value typed into the modal (NoValue: the modal has no value field)
Forms ==
    { [niche |-> "fiber", deal_type |-> "self_generated", deal_value |-> NoValue],
      [niche |-> "landscaping", deal_type |-> "deal_closed", deal_value |-> 5000] }

\* The deal type the niche views pass to the calculator, and the one
\* save_deal_to_both_systems stores in the leaderboard store
leaderboard_deal_type(deal_type) ==
    CASE deal_type = "appointment_set" -> "set"
      [] deal_type = "deal_closed" -> "close"
      [] OTHER -> deal_type

\* LandscapingDealModal.calculate_landscaping_points
calculate_landscaping_points(deal_value, base_points) ==
    IF deal_value >= 10000 THEN base_points + 2
    ELSE IF deal_value >= 5000 THEN base_points + 1
    ELSE base_points

\* The points a modal hands to save_deal_to_both_systems: the view computes
\* the base with the calculator, the landscaping modal adds its value tier
final_points(form) ==
    LET base == calculate_points(leaderboard_deal_type(form.deal_type), form.niche, 0)
    IN  IF form.niche = "landscaping" /\ form.deal_value # NoValue
        THEN calculate_landscaping_points(form.deal_value, base)
        ELSE base

\* DatabaseManager.save_deal: points go to the points column, points_awarded
\* keeps its column default
save_deal(rows, guild_id, user_id, niche, deal_type, deal_value, points_awarded) ==
    Append(rows, [guild_id |-> guild_id, user_id |-> user_id, niche |-> niche,
                  deal_type |-> deal_type, deal_value |-> deal_value,
                  points |-> points_awarded, points_awarded |-> 0])

SubmitFailPoints == {"none", "save_deal", "get_current_week_number", "insert_deal"}

\* BaseDealModal.save_deal_to_both_systems, called by a modal's on_submit
save_deal_to_both_systems(m, form, fail) ==
    /\ LET points_to_award == final_points(form)
       IN  IF fail = "save_deal"
           THEN UNCHANGED <<core_deals, deals>>
           ELSE /\ core_deals' = save_deal(core_deals, m.guild_id, m.user_id, form.niche,
                                           form.deal_type, form.deal_value, points_to_award)
                /\ IF fail = "none"
                   THEN deals' = insert_deal(deals, m.guild_id, m.user_id, m.username,
                                             leaderboard_deal_type(form.deal_type),
                                             form.niche, points_to_award,
                                             get_current_week_number(m.guild_id), FALSE)
                   ELSE UNCHANGED deals
    /\ UNCHANGED <<tournament_settings, tournament_weeks, leaderboard_snapshots, today, call, reply, resets>>

\* ------------------------------------------------------------------------
\* LeaderboardManager commands
\* ------------------------------------------------------------------------
AdminDealTypes == {"standard"}

\* !admin_add_deal: niche is always 'solar' (_get_user_niche), the deal goes
\* to the leaderboard store only
admin_add_deal(m, deal_type, fail) ==
    /\ IF fail = "none"
       THEN deals' = insert_deal(deals, m.guild_id, m.user_id, m.username, deal_type,
                                 "solar", calculate_points(deal_type, "solar", 0),
                                 get_current_week_number(m.guild_id), TRUE)
       ELSE UNCHANGED deals
    /\ UNCHANGED <<core_deals, tournament_settings, tournament_weeks,
                   leaderboard_snapshots, today, call, reply, resets>>

\* !reset_tournament and the weekly job both run reset_guild_tournament, which
\* logs every exception and returns normally.  The statement that raised: a
\* failing get_current_week_number leaves what a failing
\* initialize_tournament_week leaves, a failing get_leaderboard_data what a
\* failing save_leaderboard_snapshot leaves (its rows share one commit)
ResetFailPoints == {"none", "initialize_tournament_week", "save_leaderboard_snapshot"}

\* A reset that opens the new week and archives nothing
reset_guild_tournament_no_archive(weeks, snapshots, guild_id, leaderboard_data, fail) ==
    IF fail = "initialize_tournament_week"
    THEN [tournament_weeks |-> weeks, leaderboard_snapshots |-> snapshots]
    ELSE [tournament_weeks |->
              initialize_tournament_week(weeks, guild_id, get_current_week_number(guild_id) + 1),
          leaderboard_snapshots |-> snapshots]

\* TournamentManager.reset_guild_tournament: the tables as it leaves them;
\* leaderboard_data is the result its get_leaderboard_data call returned
reset_guild_tournament(weeks, snapshots, guild_id, leaderboard_data, fail) ==
    LET current_week == get_current_week_number(guild_id)
        new_week == current_week + 1
        new_start_date == today
    IN  IF fail = "initialize_tournament_week"
        THEN [tournament_weeks |-> weeks, leaderboard_snapshots |-> snapshots]
        ELSE IF fail = "save_leaderboard_snapshot"
        THEN [tournament_weeks |-> initialize_tournament_week(weeks, guild_id, new_week),
              leaderboard_snapshots |-> snapshots]
        ELSE [tournament_weeks |-> initialize_tournament_week(weeks, guild_id, new_week),
              leaderboard_snapshots |->
                  save_leaderboard_snapshot(snapshots, guild_id, leaderboard_data,
                                            current_week, new_start_date)]

\* The archive read of reset_guild_tournament
ArchiveReads(guild_id) ==
    get_leaderboard_data("week", guild_id, get_current_week_number(guild_id))

\* One result per guild, as the jobs read them while iterating bot.guilds
JobReads ==
    {d \in [Guilds -> UNION {ArchiveReads(g) : g \in Guilds}] :
        \A g \in Guilds : d[g] \in ArchiveReads(g)}

\* A reset that clears the guild's deals when it opens the new week
reset_tournament_clears_deals(guild_id, fail) ==
    \E leaderboard_data \in ArchiveReads(guild_id) :
        LET r == reset_guild_tournament(tournament_weeks, leaderboard_snapshots,
                                        guild_id, leaderboard_data, fail)
            kept(row) == row.guild_id # guild_id
        IN  /\ tournament_weeks' = r.tournament_weeks
            /\ leaderboard_snapshots' = r.leaderboard_snapshots
            /\ deals' = SelectSeq(deals, kept)
            /\ UNCHANGED <<core_deals, tournament_settings, today, call, reply, resets>>

\* !reset_tournament
reset_tournament(guild_id, fail) ==
    \E leaderboard_data \in ArchiveReads(guild_id) :
        LET r == reset_guild_tournament(tournament_weeks, leaderboard_snapshots,
                                        guild_id, leaderboard_data, fail)
        IN  /\ tournament_weeks' = r.tournament_weeks
            /\ leaderboard_snapshots' = r.leaderboard_snapshots
            /\ UNCHANGED <<deals, core_deals, tournament_settings, today, call, reply, resets>>

\* A weekly job that gives up at the first guild whose reset raised
RECURSIVE ResetFrom_stops_at_failure(_, _, _, _, _)
ResetFrom_stops_at_failure(i, weeks, snapshots, reads, fails) ==
    IF i > Len(GuildList)
    THEN [tournament_weeks |-> weeks, leaderboard_snapshots |-> snapshots]
    ELSE LET g == GuildList[i]
             r == reset_guild_tournament(weeks, snapshots, g, reads[g], fails[g])
         IN  IF fails[g] # "none" THEN r
             ELSE ResetFrom_stops_at_failure(i + 1, r.tournament_weeks,
                                             r.leaderboard_snapshots, reads, fails)

\* The guilds of bot.guilds from position i on, reset one after the other
RECURSIVE ResetFrom(_, _, _, _, _)
ResetFrom(i, weeks, snapshots, reads, fails) ==
    IF i > Len(GuildList)
    THEN [tournament_weeks |-> weeks, leaderboard_snapshots |-> snapshots]
    ELSE LET g == GuildList[i]
             r == reset_guild_tournament(weeks, snapshots, g, reads[g], fails[g])
         IN  ResetFrom(i + 1, r.tournament_weeks, r.leaderboard_snapshots, reads, fails)

\* TournamentManager.weekly_reset, one tick
weekly_reset(reads, fails) ==
    LET r == ResetFrom(1, tournament_weeks, leaderboard_snapshots, reads, fails)
    IN  /\ tournament_weeks' = r.tournament_weeks
        /\ leaderboard_snapshots' = r.leaderboard_snapshots
        /\ UNCHANGED <<deals, core_deals, tournament_settings, today, call, reply, resets>>

\* reset_guild_tournament statement by statement.  Its callers are the weekly
\* job, which goes through bot.guilds, and !reset_tournament; each awaits four
\* database calls and the other caller can run between any two of them.
Callers == {"weekly_reset", "reset_tournament"}

\* A caller that is not inside reset_guild_tournament.  overlapped: another
\* caller was between its read of the guild's week and its last statement
\* when this one read the same week
Idle ==
    [pc |-> "idle", guild_id |-> 0, current_week |-> 0,
     leaderboard_data |-> <<>>, overlapped |-> FALSE]

NoResets == [c \in Callers |-> Idle]

\* The caller has read the week and has not yet saved the snapshot
InFlight(r) ==
    r.pc \in {"initialize_tournament_week", "get_leaderboard_data",
              "save_leaderboard_snapshot"}

\* The guild after guild_id in bot.guilds, 0 after the last one
NextGuild(guild_id) ==
    LET i == CHOOSE k \in DOMAIN GuildList : GuildList[k] = guild_id
    IN  IF i < Len(GuildList) THEN GuildList[i + 1] ELSE 0

\* A tick of the weekly job starts with the first guild; the command runs for
\* the guild it was sent in
reset_called(c, guild_id) ==
    /\ resets[c].pc = "idle"
    /\ c = "weekly_reset" => guild_id = GuildList[1]
    /\ resets' = [resets EXCEPT ![c] = [Idle EXCEPT !.pc = "get_current_week_number",
                                                    !.guild_id = guild_id]]
    /\ UNCHANGED <<deals, core_deals, tournament_settings, tournament_weeks,
                   leaderboard_snapshots, today, call, reply>>

\* current_week = await self.db.get_current_week_number(guild_id)
reset_get_current_week_number(c) ==
    /\ resets[c].pc = "get_current_week_number"
    /\ LET g == resets[c].guild_id
           w == get_current_week_number(g)
           meets(d) == /\ d # c
                       /\ InFlight(resets[d])
                       /\ resets[d].guild_id = g
                       /\ resets[d].current_week = w
       IN  resets' =
             [d \in Callers |->
                IF d = c
                THEN [resets[c] EXCEPT !.pc = "initialize_tournament_week",
                                       !.current_week = w,
                                       !.overlapped = \E e \in Callers : meets(e)]
                ELSE IF meets(d) THEN [resets[d] EXCEPT !.overlapped = TRUE]
                ELSE resets[d]]
    /\ UNCHANGED <<deals, core_deals, tournament_settings, tournament_weeks,
                   leaderboard_snapshots, today, call, reply>>

\* await self.db.initialize_tournament_week(guild_id, new_week, new_start_date)
reset_initialize_tournament_week(c) ==
    /\ resets[c].pc = "initialize_tournament_week"
    /\ tournament_weeks' = initialize_tournament_week(tournament_weeks, resets[c].guild_id,
                                                      resets[c].current_week + 1)
    /\ resets' = [resets EXCEPT ![c].pc = "get_leaderboard_data"]
    /\ UNCHANGED <<deals, core_deals, tournament_settings, leaderboard_snapshots,
                   today, call, reply>>

\* leaderboard_data = await self.db.get_leaderboard_data('week', guild_id, current_week)
reset_get_leaderboard_data(c) ==
    /\ resets[c].pc = "get_leaderboard_data"
    /\ \E data \in get_leaderboard_data("week", resets[c].guild_id, resets[c].current_week) :
          resets' = [resets EXCEPT ![c].pc = "save_leaderboard_snapshot",
                                   ![c].leaderboard_data = data]
    /\ UNCHANGED <<deals, core_deals, tournament_settings, tournament_weeks,
                   leaderboard_snapshots, today, call, reply>>

\* await self.db.save_leaderboard_snapshot(...), then the return: the job goes
\* on to the next guild of bot.guilds
reset_save_leaderboard_snapshot(c) ==
    /\ resets[c].pc = "save_leaderboard_snapshot"
    /\ leaderboard_snapshots' =
          save_leaderboard_snapshot(leaderboard_snapshots, resets[c].guild_id,
                                    resets[c].leaderboard_data, resets[c].current_week, today)
    /\ resets' = [resets EXCEPT ![c] =
                     IF c = "weekly_reset" /\ NextGuild(resets[c].guild_id) # 0
                     THEN [Idle EXCEPT !.pc = "get_current_week_number",
                                       !.guild_id = NextGuild(resets[c].guild_id)]
                     ELSE Idle]
    /\ UNCHANGED <<deals, core_deals, tournament_settings, tournament_weeks,
                   today, call, reply>>

\* The guilds of bot.guilds from position i on, snapshotted one after the
\* other; a guild whose step raised is logged and skipped
RECURSIVE SnapshotFrom(_, _, _, _)
SnapshotFrom(i, snapshots, reads, failed) ==
    IF i > Len(GuildList) THEN snapshots
    ELSE LET g == GuildList[i]
             next == IF g \in failed THEN snapshots
                     ELSE save_leaderboard_snapshot(snapshots, g, reads[g],
                                                    get_current_week_number(g), today)
         IN  SnapshotFrom(i + 1, next, reads, failed)

\* TournamentManager.daily_update, one tick
daily_update(reads, failed) ==
    LET rows == SnapshotFrom(1, leaderboard_snapshots, reads, failed)
    IN  /\ leaderboard_snapshots' = rows
        /\ UNCHANGED <<deals, core_deals, tournament_settings, tournament_weeks, today, call, reply, resets>>

\* ------------------------------------------------------------------------
\* AdminCommands (commands/admin_commands.py)
\* ------------------------------------------------------------------------
\* UPDATE deals SET points_awarded = ? WHERE deal_id = ? AND guild_id = ?
\* (the core store takes the points key only)
UpdateCore(rows, deal_id, guild_id, updates) ==
    IF "points" \in DOMAIN updates
    THEN [i \in DOMAIN rows |->
            IF i = deal_id /\ rows[i].guild_id = guild_id
            THEN [rows[i] EXCEPT !.points_awarded = updates["points"]]
            ELSE rows[i]]
    ELSE rows

\* An UPDATE whose WHERE clause names the deal id only
UpdateLeaderboard_any_guild(rows, deal_id, guild_id, updates) ==
    [i \in DOMAIN rows |->
        IF i = deal_id
        THEN [f \in DOMAIN rows[i] |->
                IF f \in DOMAIN updates THEN updates[f] ELSE rows[i][f]]
        ELSE rows[i]]

\* UPDATE deals SET <every key of updates> WHERE deal_id = ? AND guild_id = ?
UpdateLeaderboard(rows, deal_id, guild_id, updates) ==
    [i \in DOMAIN rows |->
        IF i = deal_id /\ rows[i].guild_id = guild_id
        THEN [f \in DOMAIN rows[i] |->
                IF f \in DOMAIN updates THEN updates[f] ELSE rows[i][f]]
        ELSE rows[i]]

UpdateFailPoints == {"none", "core", "leaderboard"}

\* What the command sends after _update_deal_in_both_systems: the success
\* embed when no statement raised, the error message otherwise
command_reply(fail) == IF fail = "none" THEN "success" ELSE "error"

\* AdminCommands._update_deal_in_both_systems: the core statement commits
\* before the leaderboard one runs
update_deal_in_both_systems(deal_id, guild_id, updates, fail) ==
    /\ fail = "core" => "points" \in DOMAIN updates
    /\ IF fail = "core"
       THEN UNCHANGED <<core_deals, deals>>
       ELSE /\ core_deals' = UpdateCore(core_deals, deal_id, guild_id, updates)
            /\ IF fail = "leaderboard"
               THEN UNCHANGED deals
               ELSE deals' = UpdateLeaderboard(deals, deal_id, guild_id, updates)
    /\ UNCHANGED <<tournament_settings, tournament_weeks, leaderboard_snapshots, today, call, resets>>

\* A dispute that also takes the points away
dispute_deal_zeroes_points(guild_id, deal_id, fail) ==
    update_deal_in_both_systems(deal_id, guild_id, [disputed |-> TRUE, points |-> 0], fail)

\* !admin_dispute
dispute_deal(guild_id, deal_id, fail) ==
    update_deal_in_both_systems(deal_id, guild_id, [disputed |-> TRUE], fail)

\* An approve that verifies the deal and leaves the dispute flag
approve_deal_keeps_disputed(guild_id, deal_id, fail) ==
    update_deal_in_both_systems(deal_id, guild_id, [verified |-> TRUE], fail)

\* !admin_approve
approve_deal(guild_id, deal_id, fail) ==
    update_deal_in_both_systems(deal_id, guild_id,
                                [disputed |-> FALSE, verified |-> TRUE], fail)

\* A reject that forgets the points key
reject_deal_keeps_points(guild_id, deal_id, fail) ==
    update_deal_in_both_systems(deal_id, guild_id,
                                [disputed |-> TRUE, verified |-> FALSE], fail)

\* !admin_reject
reject_deal(guild_id, deal_id, fail) ==
    update_deal_in_both_systems(deal_id, guild_id,
                                [disputed |-> TRUE, verified |-> FALSE, points |-> 0], fail)

\* The numbers an admin passes to !admin_modify_points, after int()
NewPoints == {-1}

\* !admin_modify_points
modify_deal_points(guild_id, deal_id, new_points, fail) ==
    update_deal_in_both_systems(deal_id, guild_id, [points |-> new_points], fail)

\* The deal ids an admin can type: every stored id and one that matches no row
DealIds == 1..(MaxDeals + 1)

\* No admin command has run
NoReply == [command |-> "none", guild_id |-> 0, deal_id |-> 0, message |-> "none"]

\* The command that ran last, the guild it ran in, the deal id it named and
\* the message it sent
Replied(command, guild_id, deal_id, fail) ==
    reply' = [command |-> command, guild_id |-> guild_id, deal_id |-> deal_id,
              message |-> command_reply(fail)]

\* ------------------------------------------------------------------------
\* Direct calls of the calculator
\* ------------------------------------------------------------------------
\* The deal types a caller can pass: the keys of the tables, other spellings
\* and cases of them, a word no table has, and the two bonus keys
CalcDealTypes ==
    {"standard", "self_generated", "set", "close", "self",
     "closed", "self-generated", "Close", "CLOSED", "Self", "Standard",
     "Self_Generated", "referral", "bonus_threshold", "bonus_per_50k"}

CalcNiches == {"solar", "fiber", "landscaping", "SOLAR", "Fiber", "Landscaping", "roofing"}

CalcAmounts == {0, 5000, 50000, 50001, 62000, 99999, 100000, 175000}

\* No call under way
NoCall == [deal_type |-> "", niche |-> "", deal_amount |-> 0, points |-> NoValue]

CalcCalls ==
    [deal_type : CalcDealTypes, niche : CalcNiches, deal_amount : CalcAmounts,
     points : {NoValue}]

\* calculate_points(deal_type, niche, deal_amount) returns
Calculate ==
    /\ call # NoCall
    /\ call.points = NoValue
    /\ call' = [call EXCEPT !.points =
                   calculate_points(call.deal_type, call.niche, call.deal_amount)]
    /\ UNCHANGED <<deals, core_deals, tournament_settings, tournament_weeks,
                   leaderboard_snapshots, today, reply, resets>>

\* ------------------------------------------------------------------------
\* Specification
\* ------------------------------------------------------------------------
\* The date changes
NextDay ==
    /\ today < MaxDay
    /\ today' = today + 1
    /\ UNCHANGED <<deals, core_deals, tournament_settings, tournament_weeks,
                   leaderboard_snapshots, call, reply, resets>>

\* The tables as setup_database creates them.  cog_load runs inside setup_hook,
\* before the gateway connection, so initialize_tournaments finds bot.guilds
\* empty and writes no tournament_weeks row.
Init ==
    /\ deals = <<>>
    /\ core_deals = <<>>
    /\ tournament_settings = <<>>
    /\ tournament_weeks = {}
    /\ leaderboard_snapshots = <<>>
    /\ today = 0
    /\ call = NoCall
    /\ reply = NoReply
    /\ resets = NoResets

\* The bounds of the model: the stores hold at most MaxDeals deals each and
\* MaxSnapshots snapshot rows
RoomForDeal == Len(deals) < MaxDeals /\ Len(core_deals) < MaxDeals

SnapshotsBounded == Len(leaderboard_snapshots') <= MaxSnapshots

SubmitDeal == \E m \in Members, form \in Forms, fail \in SubmitFailPoints :
                  RoomForDeal /\ save_deal_to_both_systems(m, form, fail)

AdminAddDeal == \E m \in Members, deal_type \in AdminDealTypes, fail \in {"none", "insert_deal"} :
                    RoomForDeal /\ admin_add_deal(m, deal_type, fail)

AdminDispute == \E g \in Guilds, id \in DealIds, fail \in UpdateFailPoints :
                    dispute_deal(g, id, fail) /\ UNCHANGED reply

AdminApprove == \E g \in Guilds, id \in DealIds, fail \in UpdateFailPoints :
                    approve_deal(g, id, fail) /\ UNCHANGED reply

AdminReject == \E g \in Guilds, id \in DealIds, fail \in UpdateFailPoints :
                   reject_deal(g, id, fail) /\ UNCHANGED reply

AdminModifyPoints == \E g \in Guilds, id \in DealIds, p \in NewPoints, fail \in UpdateFailPoints :
                         modify_deal_points(g, id, p, fail) /\ UNCHANGED reply

ResetTournament == \E g \in Guilds, fail \in ResetFailPoints :
                       reset_tournament(g, fail) /\ SnapshotsBounded

WeeklyReset == \E reads \in JobReads, fails \in [Guilds -> ResetFailPoints] :
                   weekly_reset(reads, fails) /\ SnapshotsBounded

DailyUpdate == \E reads \in JobReads, failed \in SUBSET Guilds :
                   daily_update(reads, failed) /\ SnapshotsBounded

Next ==
    \/ SubmitDeal
    \/ AdminAddDeal
    \/ AdminDispute
    \/ AdminApprove
    \/ AdminReject
    \/ AdminModifyPoints
    \/ ResetTournament
    \/ WeeklyReset
    \/ DailyUpdate
    \/ NextDay

Spec == Init /\ [][Next]_vars

\* The ledger alone.  The jobs and !reset_tournament write tournament_weeks
\* and leaderboard_snapshots only, and a submission that fails leaves the
\* leaderboard store as it was, so the leaderboard store goes through the
\* same states here as under Spec.
SubmitDealStored == \E m \in Members, form \in Forms :
                        RoomForDeal /\ save_deal_to_both_systems(m, form, "none")

NextLedger ==
    \/ SubmitDealStored
    \/ AdminAddDeal
    \/ AdminDispute
    \/ AdminApprove
    \/ AdminReject
    \/ AdminModifyPoints
    \/ NextDay

SpecLedger == Init /\ [][NextLedger]_vars

\* The calculator alone: any call a caller can make, and its return.
InitCalc ==
    /\ deals = <<>>
    /\ core_deals = <<>>
    /\ tournament_settings = <<>>
    /\ tournament_weeks = {}
    /\ leaderboard_snapshots = <<>>
    /\ today = 0
    /\ call \in CalcCalls
    /\ reply = NoReply
    /\ resets = NoResets

NextCalc == Calculate

SpecCalc == InitCalc /\ [][NextCalc]_vars

\* The tournament clock: deals recorded and rejected, the weekly job and
\* !reset_tournament.
RejectStored == \E g \in Guilds, id \in DealIds : reject_deal(g, id, "none") /\ UNCHANGED reply

NextTournament ==
    \/ SubmitDealStored
    \/ RejectStored
    \/ ResetTournament
    \/ WeeklyReset
    \/ NextDay

SpecTournament == Init /\ [][NextTournament]_vars

\* Every operation together, for one member of each guild: submissions, all
\* four admin commands, !reset_tournament and both jobs.
FrameMembers == {m \in Members : m.username # "annie" /\ m.user_id = m.guild_id}

FrameSubmitDeal == \E m \in FrameMembers, form \in {f \in Forms : f.niche = "fiber"} :
                       RoomForDeal /\ save_deal_to_both_systems(m, form, "none")

DisputeStored == \E g \in Guilds, id \in DealIds : dispute_deal(g, id, "none") /\ UNCHANGED reply

ApproveStored == \E g \in Guilds, id \in DealIds : approve_deal(g, id, "none") /\ UNCHANGED reply

ModifyPointsStored == \E g \in Guilds, id \in DealIds, p \in NewPoints :
                          modify_deal_points(g, id, p, "none") /\ UNCHANGED reply

NextFrame ==
    \/ FrameSubmitDeal
    \/ DisputeStored
    \/ ApproveStored
    \/ RejectStored
    \/ ModifyPointsStored
    \/ ResetTournament
    \/ WeeklyReset
    \/ DailyUpdate

SpecFrame == Init /\ [][NextFrame]_vars

\* The admin commands with the messages they send, on the deals of one member
\* of each guild.
ReplyDispute == \E g \in Guilds, id \in DealIds, fail \in UpdateFailPoints :
                    dispute_deal(g, id, fail) /\ Replied("admin_dispute", g, id, fail)

ReplyApprove == \E g \in Guilds, id \in DealIds, fail \in UpdateFailPoints :
                    approve_deal(g, id, fail) /\ Replied("admin_approve", g, id, fail)

ReplyReject == \E g \in Guilds, id \in DealIds, fail \in UpdateFailPoints :
                   reject_deal(g, id, fail) /\ Replied("admin_reject", g, id, fail)

ReplyModifyPoints == \E g \in Guilds, id \in DealIds, p \in NewPoints, fail \in UpdateFailPoints :
                         /\ modify_deal_points(g, id, p, fail)
                         /\ Replied("admin_modify_points", g, id, fail)

NextReply ==
    \/ FrameSubmitDeal
    \/ ReplyDispute
    \/ ReplyApprove
    \/ ReplyReject
    \/ ReplyModifyPoints

SpecReply == Init /\ [][NextReply]_vars

\* Submissions alone, each statement of save_deal_to_both_systems free to fail.
NextSubmit ==
    \/ SubmitDeal
    \/ NextDay

SpecSubmit == Init /\ [][NextSubmit]_vars

\* The two jobs alone, over the deals of one member of each guild.
NextJobs ==
    \/ FrameSubmitDeal
    \/ WeeklyReset
    \/ DailyUpdate
    \/ NextDay

SpecJobs == Init /\ [][NextJobs]_vars

\* The weekly job and !reset_tournament interleaved at their await points,
\* with deals being recorded meanwhile.  A submission reads the week from
\* tournament_settings, which no statement writes, so its two statements are
\* taken in one step.
ResetCalled == \E c \in Callers, g \in Guilds : reset_called(c, g)

ResetGetCurrentWeekNumber == \E c \in Callers : reset_get_current_week_number(c)

ResetInitializeTournamentWeek == \E c \in Callers : reset_initialize_tournament_week(c)

ResetGetLeaderboardData == \E c \in Callers : reset_get_leaderboard_data(c)

ResetSaveLeaderboardSnapshot ==
    \E c \in Callers : reset_save_leaderboard_snapshot(c) /\ SnapshotsBounded

NextRace ==
    \/ FrameSubmitDeal
    \/ ResetCalled
    \/ ResetGetCurrentWeekNumber
    \/ ResetInitializeTournamentWeek
    \/ ResetGetLeaderboardData
    \/ ResetSaveLeaderboardSnapshot

SpecRace == Init /\ [][NextRace]_vars

\* Ranking: one guild's members with up to MaxRankDeals deals, so that
\* participants tie on points with different deal counts.
MaxRankDeals == 3

RankMembers == {m \in Members : m.guild_id = 1}

RankSubmitDeal == \E m \in RankMembers, form \in Forms :
                      /\ Len(deals) < MaxRankDeals
                      /\ save_deal_to_both_systems(m, form, "none")

RankAdminAddDeal == \E m \in RankMembers, deal_type \in AdminDealTypes :
                        /\ Len(deals) < MaxRankDeals
                        /\ admin_add_deal(m, deal_type, "none")

RankModifyPoints == \E id \in 1..MaxRankDeals, p \in NewPoints :
                        modify_deal_points(1, id, p, "none") /\ UNCHANGED reply

NextRank ==
    \/ RankSubmitDeal
    \/ RankAdminAddDeal
    \/ RankModifyPoints
    \/ NextDay

SpecRank == Init /\ [][NextRank]_vars

\* ------------------------------------------------------------------------
\* Properties
\* ------------------------------------------------------------------------
\* The week numbers in use for a guild, and the windows Rank can be asked for
WeekNumbers(g) ==
    {get_current_week_number(g)}
        \cup {deals[i].week_number : i \in DOMAIN deals}
        \cup {w.week_number : w \in tournament_weeks}

Windows(g) == {<<"today", 0>>} \cup {<<"week", w>> : w \in WeekNumbers(g)}

\* The deals that count in some Rank window of their guild
Counted(i) ==
    \E w \in Windows(deals[i].guild_id) : i \in CountedDeals(w[1], deals[i].guild_id, w[2])

\* C1: a deal whose disputed flag is true contributes to no entry of Rank,
\* for the today window and for every week, even when it is verified.
C1_DisputedDealsExcluded ==
    \A i \in DOMAIN deals : deals[i].disputed => ~Counted(i)

\* C2: a reject of a deal of the caller's guild leaves the deal with points 0,
\* verified false and disputed true, all three written by one update (a
\* reject that fails leaves the row as it was), and the deal then counts in no
\* Rank window.
Rejected(row) == row.points = 0 /\ ~row.verified /\ row.disputed

C2_RejectZeroesDeal ==
    [][\A g \in Guilds, id \in DOMAIN deals, fail \in UpdateFailPoints :
          (deals[id].guild_id = g /\ reject_deal(g, id, fail))
              => /\ fail = "none" => Rejected(deals'[id]) /\ ~Counted(id)'
                 /\ fail # "none" => deals'[id] = deals[id]
                 /\ \A j \in DOMAIN deals : j # id => deals'[j] = deals[j]]_vars

C2_Witness ==
    \E i \in DOMAIN deals : Rejected(deals[i]) /\ deals[i].week_number = 1

\* C10: the points stored for a submitted deal are the calculator's points for
\* its deal type, niche and deal value.
DealAmount(deal_value) == IF deal_value = NoValue THEN 0 ELSE deal_value

C10_StoredPointsAreCalculated ==
    \A i \in DOMAIN core_deals :
          core_deals[i].points =
              calculate_points(leaderboard_deal_type(core_deals[i].deal_type),
                               core_deals[i].niche,
                               DealAmount(core_deals[i].deal_value))

\* C3: every reset_guild_tournament that completes, from !reset_tournament or
\* from the weekly job, raises the week get_current_week_number reports by one.
C3_AdvanceAddsOneWeek ==
    [][/\ \A g \in Guilds :
            reset_tournament(g, "none")
                => get_current_week_number(g)' = get_current_week_number(g) + 1
       /\ \A reads \in JobReads :
            weekly_reset(reads, [g \in Guilds |-> "none"])
                => \A g \in Guilds :
                      get_current_week_number(g)' = get_current_week_number(g) + 1]_vars

\* C4: once a guild's tournament has been reset, a deal recorded for it carries
\* the week the reset opened, and right after a reset the current week's Rank
\* counts no deal recorded before it.
WeeksOpened(g) == {w.week_number : w \in {x \in tournament_weeks : x.guild_id = g}}

C4_RankingsResetAtRotation ==
    [][\A g \in Guilds :
          /\ (/\ WeeksOpened(g) # {}
              /\ Len(deals') = Len(deals) + 1
              /\ deals'[Len(deals')].guild_id = g)
                 => \A w \in WeeksOpened(g) : deals'[Len(deals')].week_number >= w
          /\ reset_tournament(g, "none")
                 => CountedDeals("week", g, get_current_week_number(g))' = {}]_vars

\* C5 as stated: after any reset_guild_tournament, whatever the prior week
\* holds and whether or not a step failed, a snapshot row of the guild tagged
\* with the prior week exists.
SnapshotRows(rows, g, w) ==
    {i \in DOMAIN rows : rows[i].guild_id = g /\ rows[i].week_number = w}

Archived(rows, g, w, entry) ==
    /\ rows.guild_id = g
    /\ rows.week_number = w
    /\ rows.snapshot_date = today
    /\ rows.user_id = entry.user_id
    /\ rows.username = entry.username
    /\ rows.total_points = entry.total_points
    /\ rows.total_deals = entry.total_deals

NewSnapshotRows(g) ==
    {i \in (Len(leaderboard_snapshots) + 1)..Len(leaderboard_snapshots') :
        leaderboard_snapshots'[i].guild_id = g}

AdvanceArchived(g, fail) ==
    LET w == get_current_week_number(g)
        groups == LeaderboardGroups("week", g, w)
    IN  /\ SubSeq(leaderboard_snapshots', 1, Len(leaderboard_snapshots)) = leaderboard_snapshots
        /\ fail # "none" => NewSnapshotRows(g) = {}
        /\ fail = "none" =>
              /\ Cardinality(NewSnapshotRows(g)) = Cardinality(groups)
              /\ \A e \in groups : \E i \in NewSnapshotRows(g) :
                    Archived(leaderboard_snapshots'[i], g, w, e)

RankResults(g) ==
    UNION {get_leaderboard_data(w[1], g, w[2]) : w \in Windows(g)}

\* C6: in every Rank result each submitter id occurs in one entry at most, and
\* the entry's total points and deal count are those of all the submitter's
\* counted deals in the window.
C6_OneEntryPerSubmitter ==
    \A g \in Guilds : \A w \in Windows(g) :
        LET ids == CountedDeals(w[1], g, w[2])
        IN  \A data \in get_leaderboard_data(w[1], g, w[2]) :
                /\ \A i, j \in DOMAIN data : data[i].user_id = data[j].user_id => i = j
                /\ \A i \in DOMAIN data :
                      LET mine == {d \in ids : deals[d].user_id = data[i].user_id}
                      IN  /\ data[i].total_points = SumPoints(mine)
                          /\ data[i].total_deals = Cardinality(mine)

\* C7: Rank is sorted by total points descending, and among equal totals by
\* deal count descending: for entries a ranked before b, a has more points, or
\* as many points and no fewer deals.
C7_RankSorted ==
    \A g \in Guilds : \A data \in RankResults(g) :
        LET entries == show_leaderboard(data)
        IN  \A a, b \in DOMAIN entries :
                entries[a].rank < entries[b].rank =>
                    \/ entries[a].total_points > entries[b].total_points
                    \/ /\ entries[a].total_points = entries[b].total_points
                       /\ entries[a].total_deals >= entries[b].total_deals

C7_Witness ==
    \E g \in Guilds : \E data \in RankResults(g) :
        /\ Len(data) = 2
        /\ data[1].user_id # data[2].user_id
        /\ data[1].total_points = data[2].total_points
        /\ data[1].total_deals > data[2].total_deals

\* C8: Rank is a function of the ledger: a window has one possible result, and
\* entries that tie on points and deal count come in submitter-id order.
C8_RankDeterministic ==
    \A g \in Guilds : \A w \in Windows(g) :
        /\ \A data \in get_leaderboard_data(w[1], g, w[2]) :
              \A i, j \in DOMAIN data :
                  (/\ i < j
                   /\ data[i].total_points = data[j].total_points
                   /\ data[i].total_deals = data[j].total_deals)
                      => data[i].user_id <= data[j].user_id
        /\ Cardinality(get_leaderboard_data(w[1], g, w[2])) = 1

\* C9: in every Rank entry each counted deal is standard or self-generated:
\* standard_deals + self_generated_deals = total_deals.
C9_BreakdownAddsUp ==
    \A g \in Guilds : \A data \in RankResults(g) :
        \A i \in DOMAIN data :
            data[i].standard_deals + data[i].self_generated_deals = data[i].total_deals

\* The call has returned
Returned == call.points # NoValue

\* C11: calculate_points returns an integer of at least 1 for every niche,
\* deal type and non-negative deal value.
C11_AtLeastOnePoint ==
    Returned => call.points \in Nat /\ call.points >= 1

\* The floor acted: a fiber standard deal rounds to 0 and is awarded 1
C11_Witness ==
    /\ Returned
    /\ call.niche = "fiber"
    /\ call.deal_type = "standard"
    /\ call.points = 1

\* C12: for landscaping, the points are the deal type's table value plus one
\* point for every whole 50000 of the value above the 50000 threshold.
TableValue(niche, deal_type) ==
    IF lower(deal_type) \in DOMAIN POINTS_CONFIG(niche)
    THEN POINTS_CONFIG(niche)[lower(deal_type)] \div 10
    ELSE 1

C12_LandscapingBonus ==
    (Returned /\ call.niche = "landscaping") =>
        /\ call.points = TableValue("landscaping", call.deal_type)
                            + (max(0, call.deal_amount - 50000) \div 50000)
        /\ call.deal_amount \in {50000, 62000} =>
              call.points = TableValue("landscaping", call.deal_type)
        /\ call.deal_amount = 100000 =>
              call.points = TableValue("landscaping", call.deal_type) + 1
        /\ call.deal_amount = 175000 =>
              call.points = TableValue("landscaping", call.deal_type) + 2

C12_Witness ==
    /\ Returned
    /\ call.niche = "landscaping"
    /\ call.deal_type = "close"
    /\ call.deal_amount = 175000
    /\ call.points = 3

\* C13: synonymous spellings of a deal type ('close', 'closed'; 'self',
\* 'self-generated', 'self_generated') and any letter case of the deal type
\* or niche give the same points.
Spellings(deal_type) ==
    CASE deal_type \in {"close", "closed", "Close", "CLOSED"} ->
            {"close", "closed", "Close", "CLOSED"}
      [] deal_type \in {"self", "self-generated", "self_generated", "Self", "Self_Generated"} ->
            {"self", "self-generated", "self_generated", "Self", "Self_Generated"}
      [] deal_type \in {"standard", "Standard"} -> {"standard", "Standard"}
      [] OTHER -> {deal_type}

Cases(niche) ==
    CASE niche \in {"solar", "SOLAR"} -> {"solar", "SOLAR"}
      [] niche \in {"fiber", "Fiber"} -> {"fiber", "Fiber"}
      [] niche \in {"landscaping", "Landscaping"} -> {"landscaping", "Landscaping"}
      [] OTHER -> {niche}

C13_SynonymsAgree ==
    Returned =>
        \A t \in Spellings(call.deal_type), n \in Cases(call.niche) :
            calculate_points(t, n, call.deal_amount) = call.points

\* C14: a niche without a table gets the solar table's result for every deal
\* type and value; in a niche with a table, a deal type that is none of the
\* table's deal types gets what a 'standard' deal of that niche gets.
DealTypeNames == {"standard", "self_generated", "set", "close", "self"}

C14_Fallbacks ==
    Returned =>
        /\ lower(call.niche) \notin NicheNames =>
              call.points = calculate_points(call.deal_type, "solar", call.deal_amount)
        /\ (lower(call.niche) \in NicheNames /\ lower(call.deal_type) \notin DealTypeNames) =>
              call.points = calculate_points("standard", call.niche, call.deal_amount)

\* C15: a deal's stored points change only in a reject or modify-points step
\* that names the deal and its own guild; recording deals, dispute, approve,
\* the jobs and the reset leave them as they were stored.
OverrideStep(g, id) ==
    \E fail \in UpdateFailPoints :
        \/ reject_deal(g, id, fail)
        \/ \E p \in NewPoints : modify_deal_points(g, id, p, fail)

C15_PointsChangeOnlyByOverride ==
    [][/\ \A i \in DOMAIN deals :
            deals'[i].points # deals[i].points => OverrideStep(deals[i].guild_id, i)
       /\ \A i \in DOMAIN core_deals :
            (\/ core_deals'[i].points # core_deals[i].points
             \/ core_deals'[i].points_awarded # core_deals[i].points_awarded)
                => OverrideStep(core_deals[i].guild_id, i)]_vars

C15_Witness ==
    /\ tournament_weeks # {}
    /\ leaderboard_snapshots # <<>>
    /\ \E i, j \in DOMAIN deals :
          /\ deals[i].points = -1
          /\ deals[j].points = 2
          /\ deals[j].disputed

\* C16: no step removes a deal row or changes a row's guild, submitter or week
\* number, and a step of the reset or of a job (one that writes a tournament
\* week or a snapshot row) leaves every deal row and every week's Rank as it
\* was.
SameDeal(old, new) ==
    /\ new.guild_id = old.guild_id
    /\ new.user_id = old.user_id
    /\ new.week_number = old.week_number

C16_RotationKeepsDeals ==
    [][/\ Len(deals') >= Len(deals)
       /\ Len(core_deals') >= Len(core_deals)
       /\ \A i \in DOMAIN deals : SameDeal(deals[i], deals'[i])
       /\ \A i \in DOMAIN core_deals :
             /\ core_deals'[i].guild_id = core_deals[i].guild_id
             /\ core_deals'[i].user_id = core_deals[i].user_id
       /\ (\/ tournament_weeks' # tournament_weeks
           \/ leaderboard_snapshots' # leaderboard_snapshots)
             => /\ deals' = deals
                /\ core_deals' = core_deals
                /\ \A g \in Guilds : \A w \in WeekNumbers(g) :
                      get_leaderboard_data("week", g, w)'
                          = get_leaderboard_data("week", g, w)]_vars

C16_Witness ==
    /\ \E g \in Guilds :
          /\ [guild_id |-> g, week_number |-> 2] \in tournament_weeks
          /\ \E i \in DOMAIN deals : deals[i].guild_id = g /\ Rejected(deals[i])
    /\ leaderboard_snapshots # <<>>

\* An admin command naming guild g and deal id, whatever it is
AdminStep(g, id) ==
    \E fail \in UpdateFailPoints :
        \/ dispute_deal(g, id, fail)
        \/ approve_deal(g, id, fail)
        \/ reject_deal(g, id, fail)
        \/ \E p \in NewPoints : modify_deal_points(g, id, p, fail)

\* C17: an admin command sent from guild G with the id of a deal of another
\* guild H changes no deal of the leaderboard store, no core row of a guild other than
\* G, and no Rank result of H.
C17_OtherGuildUntouched ==
    [][\A g \in Guilds, id \in DOMAIN deals :
          (/\ deals[id].guild_id # g
           /\ reply'.guild_id = g
           /\ reply'.deal_id = id
           /\ AdminStep(g, id))
              => /\ deals' = deals
                 /\ \A i \in DOMAIN core_deals :
                       core_deals[i].guild_id # g => core_deals'[i] = core_deals[i]
                 /\ \A w \in Windows(deals[id].guild_id) :
                       get_leaderboard_data(w[1], deals[id].guild_id, w[2])'
                           = get_leaderboard_data(w[1], deals[id].guild_id, w[2])]_vars

C17_Witness ==
    /\ reply.command = "admin_modify_points"
    /\ reply.message = "success"
    /\ reply.deal_id \in DOMAIN deals
    /\ reply.deal_id \in DOMAIN core_deals
    /\ deals[reply.deal_id].guild_id # reply.guild_id
    /\ core_deals[reply.deal_id].guild_id # reply.guild_id
    /\ deals[reply.deal_id].verified
    /\ ~deals[reply.deal_id].disputed
    /\ deals[reply.deal_id].points > 0
    /\ core_deals[reply.deal_id].points_awarded \notin NewPoints
    /\ \E i \in DOMAIN deals : deals[i].guild_id = reply.guild_id

\* C18: an admin command whose deal id and guild match no deal never sends
\* the success message.
Matches(g, id) == id \in DOMAIN deals /\ deals[id].guild_id = g

C18_NoSuccessWithoutDeal ==
    [][\A g \in Guilds, id \in DealIds :
          (/\ ~Matches(g, id)
           /\ reply'.guild_id = g
           /\ reply'.deal_id = id
           /\ AdminStep(g, id))
              => reply'.message # "success"]_vars

\* C19: a rejected deal (verified false, disputed true, points 0) stays
\* unverified with 0 points through every later step.
C19_RejectedIsTerminal ==
    [][\A i \in DOMAIN deals :
          Rejected(deals[i]) => ~deals'[i].verified /\ deals'[i].points = 0]_vars

\* C20: admin_dispute on a deal whose dispute is still pending (disputed, not
\* yet approved or rejected) sends an error and changes neither store.
C20_SecondDisputeFails ==
    [][\A g \in Guilds, id \in DOMAIN deals :
          (/\ Matches(g, id)
           /\ deals[id].disputed /\ deals[id].verified
           /\ reply'.command = "admin_dispute"
           /\ reply'.guild_id = g
           /\ reply'.deal_id = id
           /\ \E fail \in UpdateFailPoints : dispute_deal(g, id, fail))
              => /\ reply'.message = "error"
                 /\ deals' = deals
                 /\ core_deals' = core_deals]_vars

\* C21: a submission in which a statement failed leaves no row in either deal
\* store.
C21_SubmissionAllOrNothing ==
    [][\A m \in Members, form \in Forms, fail \in SubmitFailPoints \ {"none"} :
          save_deal_to_both_systems(m, form, fail)
              => core_deals' = core_deals /\ deals' = deals]_vars

\* C22: in one tick of the weekly job every guild whose own reset did not fail
\* gets its next week opened and its standings archived, and in one tick of
\* the daily job every guild whose own snapshot did not fail gets its snapshot
\* rows, whichever other guilds failed in that tick.
SnapshotTaken(g, leaderboard_data) ==
    \A k \in DOMAIN leaderboard_data :
        \E i \in NewSnapshotRows(g) :
            Archived(leaderboard_snapshots'[i], g, get_current_week_number(g),
                     leaderboard_data[k])

C22_JobsIsolateGuilds ==
    [][/\ \A reads \in JobReads, fails \in [Guilds -> ResetFailPoints] :
            weekly_reset(reads, fails)
                => \A g \in Guilds :
                      fails[g] = "none"
                          => /\ [guild_id |-> g,
                                 week_number |-> get_current_week_number(g) + 1]
                                    \in tournament_weeks'
                             /\ SnapshotTaken(g, reads[g])
       /\ \A reads \in JobReads, failed \in SUBSET Guilds :
            daily_update(reads, failed)
                => \A g \in Guilds \ failed : SnapshotTaken(g, reads[g])]_vars

\* The first guild of bot.guilds has a deal to archive and nothing of it was
\* written, the second guild was processed
C22_Witness ==
    /\ \E i \in DOMAIN deals : deals[i].guild_id = GuildList[1] /\ deals[i].verified
    /\ \A w \in tournament_weeks : w.guild_id # GuildList[1]
    /\ \A i \in DOMAIN leaderboard_snapshots :
          leaderboard_snapshots[i].guild_id # GuildList[1]
    /\ [guild_id |-> GuildList[2], week_number |-> 2] \in tournament_weeks
    /\ \E i \in DOMAIN leaderboard_snapshots :
          /\ leaderboard_snapshots[i].guild_id = GuildList[2]
          /\ leaderboard_snapshots[i].total_points > 0

\* C23: when two callers of reset_guild_tournament have read the same week of
\* the same guild before either finished, the week is archived once: after
\* each of them has saved, no participant has two snapshot rows for that week.
ArchivedOnce(rows, g, w) ==
    \A i, j \in SnapshotRows(rows, g, w) : rows[i].user_id = rows[j].user_id => i = j

C23_RacingResetsArchiveOnce ==
    [][\A c \in Callers :
          (/\ resets[c].overlapped
           /\ reset_save_leaderboard_snapshot(c))
              => ArchivedOnce(leaderboard_snapshots', resets[c].guild_id,
                              resets[c].current_week)]_vars

\* C24: dispute then approve is a round trip on a clean deal.  A dispute of a
\* clean deal changes its disputed flag and nothing else, an approve of a
\* disputed deal gives back exactly the row the dispute started from, and
\* neither step changes a row of the core store or a Rank result of the guild.
Approved(row) == [row EXCEPT !.disputed = FALSE, !.verified = TRUE]

RankKept(g) ==
    \A w \in Windows(g) :
        get_leaderboard_data(w[1], g, w[2])' = get_leaderboard_data(w[1], g, w[2])

C24_DisputeApproveRoundTrip ==
    [][\A g \in Guilds, id \in DOMAIN deals :
          (/\ Matches(g, id)
           /\ deals[id].verified
           /\ reply'.guild_id = g
           /\ reply'.deal_id = id
           /\ reply'.message = "success")
              => /\ (~deals[id].disputed /\ dispute_deal(g, id, "none"))
                       => /\ deals'[id].disputed
                          /\ Approved(deals'[id]) = deals[id]
                          /\ \A j \in DOMAIN deals : j # id => deals'[j] = deals[j]
                          /\ core_deals' = core_deals
                          /\ RankKept(g)
                 /\ (deals[id].disputed /\ approve_deal(g, id, "none"))
                       => /\ deals'[id] = Approved(deals[id])
                          /\ \A j \in DOMAIN deals : j # id => deals'[j] = deals[j]
                          /\ core_deals' = core_deals
                          /\ RankKept(g)]_vars

\* An approve has just answered for a deal that is clean again and counts
\* with the points it was submitted with
C24_Witness ==
    /\ reply.command = "admin_approve"
    /\ reply.message = "success"
    /\ reply.deal_id \in DOMAIN deals
    /\ deals[reply.deal_id].guild_id = reply.guild_id
    /\ deals[reply.deal_id].verified
    /\ ~deals[reply.deal_id].disputed
    /\ deals[reply.deal_id].points = 2
    /\ Counted(reply.deal_id)

\* C25: the snapshot rows a job or a reset writes for a guild carry the rank
\* positions 1..n in the order of the ranking that was snapshotted.
C25_SnapshotRankPositions ==
    [][\A g \in Guilds :
          \A i \in NewSnapshotRows(g) :
              leaderboard_snapshots'[i].rank_position
                  = Cardinality({j \in NewSnapshotRows(g) : j <= i})]_vars

\* C26: five fiber standard deals are worth 1 point together: five times what
\* calculate_points returns for a fiber standard deal is 1.
C26_FiveFiberDealsOnePoint ==
    (Returned /\ lower(call.niche) = "fiber" /\ lower(call.deal_type) = "standard")
        => 5 * call.points = 1

\* C27: for every user and guild, the deals get_user_stats counts for the
\* current week are the user's deals get_leaderboard_data counts for it, with
\* the same number of deals and the same points.
UserIds == {m.user_id : m \in Members}

LeaderboardDealsOf(user_id, guild_id) ==
    {i \in CountedDeals("week", guild_id, get_current_week_number(guild_id)) :
        deals[i].user_id = user_id}

C27_StatsMatchLeaderboard ==
    \A g \in Guilds, u \in UserIds :
        /\ WeekStatsDeals(u, g) = LeaderboardDealsOf(u, g)
        /\ get_user_stats(u, g).deal_count = Cardinality(LeaderboardDealsOf(u, g))
        /\ get_user_stats(u, g).total_points = SumPoints(LeaderboardDealsOf(u, g))

\* C28: an archived week is final: with no admin edit, every snapshot row's
\* total is the sum of the points of the participant's verified deals tagged
\* with the row's week, in every state after the archive was written.
ArchiveIsCurrent(row) ==
    row.total_points =
        SumPoints({i \in DOMAIN deals : /\ deals[i].guild_id = row.guild_id
                                        /\ deals[i].user_id = row.user_id
                                        /\ deals[i].week_number = row.week_number
                                        /\ deals[i].verified})

C28_ArchiveIsFinal ==
    \A i \in DOMAIN leaderboard_snapshots : ArchiveIsCurrent(leaderboard_snapshots[i])

\* C29: an admin edit in which no statement failed changes the same submission
\* in both stores: when it writes the points of a core row, the leaderboard
\* row of that submission holds the same points afterwards.  The k-th row of
\* the core store and the k-th member-submitted row of the leaderboard store
\* were written by the same submission.
LeaderboardIdOf(k) ==
    CHOOSE i \in DOMAIN deals :
        /\ ~deals[i].admin_submitted
        /\ Cardinality({j \in 1..i : ~deals[j].admin_submitted}) = k

EditStep ==
    \E g \in Guilds, id \in DealIds :
        \/ reject_deal(g, id, "none")
        \/ \E p \in NewPoints : modify_deal_points(g, id, p, "none")

C30_PointsNonNegative ==
    /\ \A i \in DOMAIN deals : deals[i].points \in Nat
    /\ \A i \in DOMAIN core_deals :
          core_deals[i].points \in Nat /\ core_deals[i].points_awarded \in Nat
    /\ \A g \in Guilds : \A data \in RankResults(g) :
          \A i \in DOMAIN data : data[i].total_points >= 0

====
